---- MODULE Spec2Model ----
(***************************************************************************)
(* Model of bleak/backends/service.py: BleakGATTServiceCollection, the     *)
(* handle-indexed store of a peripheral's GATT services, characteristics   *)
(* and descriptors, and BleakGATTService.get_characteristic.               *)
(*                                                                         *)
(* Python strings are sequences of one-character strings, Python dicts are *)
(* sequences of [key, val] entries in insertion order, None is the record  *)
(* None, and a call's outcome is a record: a returned value or a raised    *)
(* exception.  The calls that populate the collection are the actions; the *)
(* lookups, which read the collection and change nothing, are operators on *)
(* the state, one per method, applied to every specifier in every state.   *)
(***************************************************************************)
EXTENDS Integers, Sequences, FiniteSets, TLC

\* Handles of the modelled attribute table are 1..MaxHandle.
MaxHandle == 2
\* At most MaxCalls calls are made in one behaviour.
MaxCalls == 3
\* The texts normalized are all strings of at most MaxLen characters.
MaxLen == 5

----------------------------------------------------------------------------
\* Strings

\* str.lower() on one character
LowerChar(c) ==
    CASE c = "A" -> "a" [] c = "B" -> "b" [] c = "C" -> "c" [] c = "D" -> "d"
      [] c = "E" -> "e" [] c = "F" -> "f" [] OTHER -> c

\* str.lower(), character by character
LowerChars(s) == [i \in DOMAIN s |-> LowerChar(s[i])]

\* The two literal parts of f"0000{x}-0000-1000-8000-00805f9b34fb"
BasePrefix == <<"0", "0", "0", "0">>
BaseSuffix ==
    <<"-", "0", "0", "0", "0", "-", "1", "0", "0", "0", "-", "8", "0", "0",
      "0", "-", "0", "0", "8", "0", "5", "f", "9", "b", "3", "4", "f", "b">>

\* f"0000{x}-0000-1000-8000-00805f9b34fb"
BaseUuid(x) == BasePrefix \o x \o BaseSuffix

\* UUID strings of the modelled peripheral, as the backends report them
\* (128-bit, lower case), and the ways a caller may spell them.
Short1800 == <<"1", "8", "0", "0">>
Short180A == <<"1", "8", "0", "A">>
Short2a00 == <<"2", "a", "0", "0">>
Uuid1800 ==
    <<"0", "0", "0", "0", "1", "8", "0", "0", "-", "0", "0", "0", "0", "-",
      "1", "0", "0", "0", "-", "8", "0", "0", "0", "-", "0", "0", "8", "0",
      "5", "f", "9", "b", "3", "4", "f", "b">>
Uuid180a ==
    <<"0", "0", "0", "0", "1", "8", "0", "a", "-", "0", "0", "0", "0", "-",
      "1", "0", "0", "0", "-", "8", "0", "0", "0", "-", "0", "0", "8", "0",
      "5", "f", "9", "b", "3", "4", "f", "b">>
Uuid180AUpper ==
    <<"0", "0", "0", "0", "1", "8", "0", "A", "-", "0", "0", "0", "0", "-",
      "1", "0", "0", "0", "-", "8", "0", "0", "0", "-", "0", "0", "8", "0",
      "5", "F", "9", "B", "3", "4", "F", "B">>

\* str.lower(): LowerChars, computed once for the strings above
\* The texts that occur as a specifier or as an attribute's uuid
Texts ==
    {Short1800, Short180A, Short2a00, Uuid1800, Uuid180a, Uuid180AUpper}

\* str.lower() of those texts, tabulated
LowerOfText == [s \in Texts |-> LowerChars(s)]

\* str.lower()
Lower(s) == IF s \in Texts THEN LowerOfText[s] ELSE LowerChars(s)

\* The attribute types of the modelled peripheral; several attributes may have
\* the same type.
AttributeTypes == {"1800", "180a"}

----------------------------------------------------------------------------
\* Values

None == [kind |-> "None"]

Handles == 1 .. MaxHandle

\* The objects the discovery adapter can hand to the collection.  An object
\* wraps the backend's attribute (obj) and is identified by it and by its
\* read-only properties.
Services == [kind : {"service"}, handle : Handles, obj : AttributeTypes]
Characteristics ==
    [kind : {"characteristic"}, handle : Handles, obj : AttributeTypes,
     service_handle : Handles]
Descriptors ==
    [kind : {"descriptor"}, handle : Handles, obj : {"1800"},
     characteristic_handle : Handles]

\* x.uuid, the property the backend computes from obj: the 128-bit lower-case
\* text of the attribute's type
uuid(x) == IF x.obj = "1800" THEN Uuid1800 ELSE Uuid180a

\* Specifiers a caller can pass to the lookups: int, str or uuid.UUID.
IntSpec(n) == [type |-> "int", int |-> n]
StrSpec(s) == [type |-> "str", text |-> s]
UuidSpec(s) == [type |-> "UUID", text |-> s]
Specifiers ==
    {IntSpec(n) : n \in 1 .. MaxHandle + 1}
      \cup {StrSpec(s) :
              s \in {Short1800, Short180A, Short2a00, Uuid1800, Uuid180a,
                     Uuid180AUpper}}
      \cup {UuidSpec(Uuid180a)}

\* isinstance(specifier, int)
IsInt(specifier) == specifier.type = "int"

\* str(specifier) of a str or of a uuid.UUID (its canonical lower-case text)
Str(specifier) == specifier.text

\* Outcomes of a call
Return(v) == [kind |-> "return", val |-> v]
Raise(e) == [kind |-> "raise", exc |-> e]

----------------------------------------------------------------------------
\* dict

DictKeys(d) == {d[i].key : i \in DOMAIN d}

\* k in d
DictHas(d, k) == k \in DictKeys(d)

\* d[k] of a present key
DictItem(d, k) == d[CHOOSE i \in DOMAIN d : d[i].key = k].val

\* d.get(k)
DictGet(d, k) == IF DictHas(d, k) THEN DictItem(d, k) ELSE None

\* d[k] = v of a dict that keeps its keys sorted instead of in insertion order
DictSetSorted(d, k, v) ==
    IF DictHas(d, k)
    THEN [i \in DOMAIN d |-> IF d[i].key = k THEN [key |-> k, val |-> v] ELSE d[i]]
    ELSE LET before == SelectSeq(d, LAMBDA e : e.key < k)
             after == SelectSeq(d, LAMBDA e : e.key > k)
         IN  before \o <<[key |-> k, val |-> v]>> \o after

\* d[k] = v
DictSet(d, k, v) ==
    IF DictHas(d, k)
    THEN [i \in DOMAIN d |-> IF d[i].key = k THEN [key |-> k, val |-> v] ELSE d[i]]
    ELSE Append(d, [key |-> k, val |-> v])

\* list(d.values())
DictValues(d) == [i \in DOMAIN d |-> d[i].val]

----------------------------------------------------------------------------
\* State

VARIABLES
    services,         \* self.__services
    characteristics,  \* self.__characteristics
    descriptors,      \* self.__descriptors
    svc_chars,        \* the non-empty characteristics lists: [owner, items]
    chr_descs,        \* the non-empty descriptors lists: [owner, items]
    call,             \* the last call made: [op, arg]
    result,           \* its outcome
    logged,           \* whether it reported through logger.error
    missing_parent,   \* the objects whose add_* call raised KeyError
    ncalls            \* population calls made so far

vars ==
    <<services, characteristics, descriptors, svc_chars, chr_descs, call,
      result, logged, missing_parent, ncalls>>

\* BleakGATTServiceCollection()
Init ==
    /\ services = <<>>
    /\ characteristics = <<>>
    /\ descriptors = <<>>
    /\ svc_chars = {}
    /\ chr_descs = {}
    /\ call = [op |-> "__init__", arg |-> None]
    /\ result = Return(None)
    /\ logged = FALSE
    /\ missing_parent = {}
    /\ ncalls = 0

----------------------------------------------------------------------------
\* Population

\* The child list of an object: empty until something is appended to it
ListOf(lists, object) ==
    IF \E l \in lists : l.owner = object
    THEN (CHOOSE l \in lists : l.owner = object).items
    ELSE <<>>

\* list.append on the child list of an object
ListAppend(lists, object, child) ==
    {l \in lists : l.owner # object}
      \cup {[owner |-> object, items |-> Append(ListOf(lists, object), child)]}

\* BleakGATTService.add_characteristic, as the backends implement it
service_add_characteristic(chars, service, characteristic) ==
    ListAppend(chars, service, characteristic)

\* BleakGATTCharacteristic.add_descriptor, as the backends implement it
characteristic_add_descriptor(descs, characteristic, descriptor) ==
    ListAppend(descs, characteristic, descriptor)

\* add_service without the membership test: the later object replaces the entry
add_service_overwrite(service) ==
    /\ ncalls < MaxCalls
    /\ ncalls' = ncalls + 1
    /\ call' = [op |-> "add_service", arg |-> service]
    /\ services' = DictSet(services, service.handle, service)
    /\ logged' = FALSE
    /\ result' = Return(None)
    /\ UNCHANGED <<characteristics, descriptors, svc_chars, chr_descs,
                   missing_parent>>

add_service(service) ==
    /\ ncalls < MaxCalls
    /\ ncalls' = ncalls + 1
    /\ call' = [op |-> "add_service", arg |-> service]
    /\ IF ~DictHas(services, service.handle)
       THEN /\ services' = DictSet(services, service.handle, service)
            /\ logged' = FALSE
       ELSE /\ services' = services
            /\ logged' = TRUE
    /\ result' = Return(None)
    /\ UNCHANGED <<characteristics, descriptors, svc_chars, chr_descs,
                   missing_parent>>

\* add_characteristic without the membership test: the later object replaces
\* the entry
add_characteristic_overwrite(characteristic) ==
    /\ ncalls < MaxCalls
    /\ ncalls' = ncalls + 1
    /\ call' = [op |-> "add_characteristic", arg |-> characteristic]
    /\ characteristics' =
         DictSet(characteristics, characteristic.handle, characteristic)
    /\ logged' = FALSE
    /\ IF DictHas(services, characteristic.service_handle)
       THEN /\ svc_chars' =
                  service_add_characteristic(
                      svc_chars,
                      DictItem(services, characteristic.service_handle),
                      characteristic)
            /\ result' = Return(None)
            /\ missing_parent' = missing_parent
       ELSE /\ svc_chars' = svc_chars
            /\ result' = Raise("KeyError")
            /\ missing_parent' = missing_parent \cup {characteristic}
    /\ UNCHANGED <<services, descriptors, chr_descs>>

\* add_characteristic that hands the characteristic to its service before the
\* membership test: a repeated call appends again
add_characteristic_append_first(characteristic) ==
    /\ ncalls < MaxCalls
    /\ ncalls' = ncalls + 1
    /\ call' = [op |-> "add_characteristic", arg |-> characteristic]
    /\ IF DictHas(services, characteristic.service_handle)
       THEN /\ svc_chars' =
                  service_add_characteristic(
                      svc_chars,
                      DictItem(services, characteristic.service_handle),
                      characteristic)
            /\ result' = Return(None)
            /\ missing_parent' = missing_parent
            /\ IF ~DictHas(characteristics, characteristic.handle)
               THEN /\ characteristics' =
                          DictSet(characteristics, characteristic.handle,
                                  characteristic)
                    /\ logged' = FALSE
               ELSE /\ characteristics' = characteristics
                    /\ logged' = TRUE
       ELSE /\ svc_chars' = svc_chars
            /\ characteristics' = characteristics
            /\ logged' = FALSE
            /\ result' = Raise("KeyError")
            /\ missing_parent' = missing_parent \cup {characteristic}
    /\ UNCHANGED <<services, descriptors, chr_descs>>

\* add_characteristic that resolves the service before the membership test
add_characteristic_resolve_first(characteristic) ==
    /\ ncalls < MaxCalls
    /\ ncalls' = ncalls + 1
    /\ call' = [op |-> "add_characteristic", arg |-> characteristic]
    /\ IF ~DictHas(services, characteristic.service_handle)
       THEN /\ characteristics' = characteristics
            /\ svc_chars' = svc_chars
            /\ logged' = FALSE
            /\ result' = Raise("KeyError")
            /\ missing_parent' = missing_parent \cup {characteristic}
       ELSE /\ result' = Return(None)
            /\ missing_parent' = missing_parent
            /\ IF ~DictHas(characteristics, characteristic.handle)
               THEN /\ characteristics' =
                          DictSet(characteristics, characteristic.handle,
                                  characteristic)
                    /\ svc_chars' =
                          service_add_characteristic(
                              svc_chars,
                              DictItem(services,
                                       characteristic.service_handle),
                              characteristic)
                    /\ logged' = FALSE
               ELSE /\ characteristics' = characteristics
                    /\ svc_chars' = svc_chars
                    /\ logged' = TRUE
    /\ UNCHANGED <<services, descriptors, chr_descs>>

add_characteristic(characteristic) ==
    /\ ncalls < MaxCalls
    /\ ncalls' = ncalls + 1
    /\ call' = [op |-> "add_characteristic", arg |-> characteristic]
    /\ IF ~DictHas(characteristics, characteristic.handle)
       THEN /\ characteristics' =
                  DictSet(characteristics, characteristic.handle, characteristic)
            /\ logged' = FALSE
            /\ IF DictHas(services, characteristic.service_handle)
               THEN /\ svc_chars' =
                          service_add_characteristic(
                              svc_chars,
                              DictItem(services, characteristic.service_handle),
                              characteristic)
                    /\ result' = Return(None)
                    /\ missing_parent' = missing_parent
               ELSE /\ svc_chars' = svc_chars
                    /\ result' = Raise("KeyError")
                    /\ missing_parent' = missing_parent \cup {characteristic}
       ELSE /\ characteristics' = characteristics
            /\ svc_chars' = svc_chars
            /\ logged' = TRUE
            /\ result' = Return(None)
            /\ missing_parent' = missing_parent
    /\ UNCHANGED <<services, descriptors, chr_descs>>

\* add_descriptor that tolerates a missing characteristic: the descriptor is
\* stored and nothing is raised
add_descriptor_lenient(descriptor) ==
    /\ ncalls < MaxCalls
    /\ ncalls' = ncalls + 1
    /\ call' = [op |-> "add_descriptor", arg |-> descriptor]
    /\ result' = Return(None)
    /\ missing_parent' = missing_parent
    /\ IF ~DictHas(descriptors, descriptor.handle)
       THEN /\ descriptors' = DictSet(descriptors, descriptor.handle, descriptor)
            /\ logged' = FALSE
            /\ chr_descs' =
                 IF DictHas(characteristics, descriptor.characteristic_handle)
                 THEN characteristic_add_descriptor(
                          chr_descs,
                          DictItem(characteristics,
                                   descriptor.characteristic_handle),
                          descriptor)
                 ELSE chr_descs
       ELSE /\ descriptors' = descriptors
            /\ chr_descs' = chr_descs
            /\ logged' = TRUE
    /\ UNCHANGED <<services, characteristics, svc_chars>>

add_descriptor(descriptor) ==
    /\ ncalls < MaxCalls
    /\ ncalls' = ncalls + 1
    /\ call' = [op |-> "add_descriptor", arg |-> descriptor]
    /\ IF ~DictHas(descriptors, descriptor.handle)
       THEN /\ descriptors' = DictSet(descriptors, descriptor.handle, descriptor)
            /\ logged' = FALSE
            /\ IF DictHas(characteristics, descriptor.characteristic_handle)
               THEN /\ chr_descs' =
                          characteristic_add_descriptor(
                              chr_descs,
                              DictItem(characteristics,
                                       descriptor.characteristic_handle),
                              descriptor)
                    /\ result' = Return(None)
                    /\ missing_parent' = missing_parent
               ELSE /\ chr_descs' = chr_descs
                    /\ result' = Raise("KeyError")
                    /\ missing_parent' = missing_parent \cup {descriptor}
       ELSE /\ descriptors' = descriptors
            /\ chr_descs' = chr_descs
            /\ logged' = TRUE
            /\ result' = Return(None)
            /\ missing_parent' = missing_parent
    /\ UNCHANGED <<services, characteristics, svc_chars>>

----------------------------------------------------------------------------
\* Lookup

\* _specifier that converts every text shorter than the 128-bit form
_specifier_expand_shorter(specifier) ==
    LET lowered == Lower(Str(specifier))
    IN  IF Len(lowered) < 36 THEN BaseUuid(lowered) ELSE lowered

\* get_service's _specifier: the lower-cased text of the specifier, a
\* 4-character one converted from 16-bit to 128-bit form
_specifier(specifier) ==
    LET lowered == Lower(Str(specifier))
    IN  IF Len(lowered) = 4 THEN BaseUuid(lowered) ELSE lowered

\* get_service without the ambiguity test: the first match is returned
get_service_first_match(specifier) ==
    IF IsInt(specifier)
    THEN Return(DictGet(services, specifier.int))
    ELSE LET _spec == _specifier(specifier)
             x == SelectSeq(DictValues(services),
                            LAMBDA s : Lower(uuid(s)) = _spec)
         IN  Return(IF x # <<>> THEN x[1] ELSE None)

\* BleakGATTServiceCollection.get_service
get_service(specifier) ==
    IF IsInt(specifier)
    THEN Return(DictGet(services, specifier.int))
    ELSE LET _spec == _specifier(specifier)
             x == SelectSeq(DictValues(services),
                            LAMBDA s : Lower(uuid(s)) = _spec)
         IN  IF Len(x) > 1
             THEN Raise("BleakError")
             ELSE Return(IF x # <<>> THEN x[1] ELSE None)

\* BleakGATTServiceCollection.get_characteristic
get_characteristic(specifier) ==
    IF IsInt(specifier)
    THEN Return(DictGet(characteristics, specifier.int))
    ELSE LET lowered == Lower(Str(specifier))
             x == SelectSeq(DictValues(characteristics),
                            LAMBDA c : uuid(c) = lowered)
         IN  IF Len(x) > 1
             THEN Raise("BleakError")
             ELSE Return(IF x # <<>> THEN x[1] ELSE None)

\* get_descriptor that falls back to a match by UUID, as get_service and
\* get_characteristic do
get_descriptor_by_uuid(handle) ==
    IF IsInt(handle)
    THEN Return(DictGet(descriptors, handle.int))
    ELSE LET _spec == _specifier(handle)
             x == SelectSeq(DictValues(descriptors),
                            LAMBDA d : uuid(d) = _spec)
         IN  Return(IF x # <<>> THEN x[1] ELSE None)

\* BleakGATTServiceCollection.get_descriptor: dict.get with whatever it is
\* given; the keys are ints, so only an int can be equal to one of them.
get_descriptor(handle) ==
    Return(IF IsInt(handle) THEN DictGet(descriptors, handle.int) ELSE None)

\* a or b, for two calls: an exception in a propagates, a truthy value of a is
\* the result, and otherwise the result is b's outcome.  None is falsy and
\* the GATT objects, which define neither __bool__ nor __len__, are truthy.
Or(a, b) == IF a.kind = "raise" \/ a.val # None THEN a ELSE b

\* __getitem__ with the characteristic lookup tried first
getitem_characteristic_first(item) ==
    Or(get_characteristic(item), Or(get_service(item), get_descriptor(item)))

\* BleakGATTServiceCollection.__getitem__
getitem(item) ==
    Or(get_service(item), Or(get_characteristic(item), get_descriptor(item)))

\* BleakGATTServiceCollection.__iter__, as the list it yields
iter == DictValues(services)

\* BleakGATTService.get_characteristic's normalization of its argument: a
\* 4-character str converted from 16-bit to 128-bit form, then the
\* lower-cased text
_uuid(u) ==
    Lower(Str(IF u.type = "str" /\ Len(u.text) = 4
              THEN StrSpec(BaseUuid(u.text))
              ELSE u))

\* BleakGATTService.get_characteristic
service_get_characteristic(service, u) ==
    LET lowered == _uuid(u)
        x == SelectSeq(ListOf(svc_chars, service),
                       LAMBDA c : uuid(c) = lowered)
    IN  Return(IF x # <<>> THEN x[1] ELSE None)

AddService == \E s \in Services : add_service(s)

AddCharacteristic == \E c \in Characteristics : add_characteristic(c)

AddDescriptor == \E d \in Descriptors : add_descriptor(d)

Next ==
    \/ AddService
    \/ AddCharacteristic
    \/ AddDescriptor

Spec == Init /\ [][Next]_vars

----------------------------------------------------------------------------
\* UUID normalization on its own: a text is normalized, and the result is
\* normalized again, by the code of get_service or by the code of
\* BleakGATTService.get_characteristic.

\* Characters of UUID strings: a digit, a lower-case and an upper-case
\* hexadecimal letter, and the separator
UuidChars == {"1", "a", "F", "-"}

\* The texts normalized
UuidStrings == Texts \cup UNION {[1 .. n -> UuidChars] : n \in 0 .. MaxLen}

\* The argument of a normalization: any text at first, and then the result
\* of the normalization before
Arguments == IF ncalls = 0 THEN UuidStrings ELSE {result.val.text}

\* Lines 143-148 applied to the str u
normalize_specifier(u) ==
    /\ ncalls < MaxCalls
    /\ ncalls > 0 => call.op = "_specifier"
    /\ ncalls' = ncalls + 1
    /\ call' = [op |-> "_specifier", arg |-> StrSpec(u)]
    /\ result' = Return(StrSpec(_specifier(StrSpec(u))))
    /\ UNCHANGED <<services, characteristics, descriptors, svc_chars,
                   chr_descs, logged, missing_parent>>

\* Lines 73-75 and 79 applied to the str u
normalize_uuid(u) ==
    /\ ncalls < MaxCalls
    /\ ncalls > 0 => call.op = "_uuid"
    /\ ncalls' = ncalls + 1
    /\ call' = [op |-> "_uuid", arg |-> StrSpec(u)]
    /\ result' = Return(StrSpec(_uuid(StrSpec(u))))
    /\ UNCHANGED <<services, characteristics, descriptors, svc_chars,
                   chr_descs, logged, missing_parent>>

NormalizeSpecifier == \E u \in Arguments : normalize_specifier(u)

NormalizeUuid == \E u \in Arguments : normalize_uuid(u)

NextNormalize ==
    \/ NormalizeSpecifier
    \/ NormalizeUuid

SpecNormalize == Init /\ [][NextNormalize]_vars

----------------------------------------------------------------------------
\* Properties

Range(seq) == {seq[i] : i \in DOMAIN seq}

Count(seq, x) == Cardinality({i \in DOMAIN seq : seq[i] = x})

\* The step is a call op(arg) that populates the collection.
Called(op, arg) == call' = [op |-> op, arg |-> arg] /\ ncalls' = ncalls + 1

\* The characteristics list of the service stored under handle h
CharacteristicsOf(h) == ListOf(svc_chars, DictItem(services, h))

\* The descriptors list of the characteristic stored under handle h
DescriptorsOf(h) == ListOf(chr_descs, DictItem(characteristics, h))

\* C1: add_characteristic(c) for a characteristic new to the collection, made
\* while no service has handle c.service_handle, raises the missing-parent
\* error; and add_characteristic(c) for a characteristic so rejected before,
\* made once that service is in the collection, succeeds: it raises nothing,
\* is not skipped as a duplicate, and leaves c exactly once, and last, in that
\* service's characteristics list.
C1_RetryAfterMissingParent ==
    [][\A c \in Characteristics :
         Called("add_characteristic", c) =>
           /\ (~DictHas(characteristics, c.handle)
                 /\ ~DictHas(services, c.service_handle))
                => result' = Raise("KeyError")
           /\ (c \in missing_parent /\ DictHas(services, c.service_handle))
                => /\ result' = Return(None)
                   /\ ~logged'
                   /\ LET l == CharacteristicsOf(c.service_handle)'
                      IN  /\ l # <<>>
                          /\ l[Len(l)] = c
                          /\ Count(l, c) = 1]_vars

\* C2: the flat mappings and the parents' child lists agree: a characteristic
\* is a value of the characteristic mapping exactly when it is in the
\* characteristics list of the stored service with its service_handle, and a
\* descriptor is a value of the descriptor mapping exactly when it is in the
\* descriptors list of the stored characteristic with its
\* characteristic_handle.
C2_ViewsAgree ==
    /\ \A c \in Characteristics :
         c \in Range(DictValues(characteristics))
           <=> /\ DictHas(services, c.service_handle)
               /\ c \in Range(CharacteristicsOf(c.service_handle))
    /\ \A d \in Descriptors :
         d \in Range(DictValues(descriptors))
           <=> /\ DictHas(characteristics, d.characteristic_handle)
               /\ d \in Range(DescriptorsOf(d.characteristic_handle))

\* C3: add_service(s) raises nothing; after it get_service(s.handle) returns
\* s when the handle was new, and the service that was stored under the
\* handle before when it was not (the original entry wins).
C3_AddServiceThenGet ==
    [][\A s \in Services :
         Called("add_service", s) =>
           /\ result' = Return(None)
           /\ get_service(IntSpec(s.handle))' =
                Return(IF DictHas(services, s.handle)
                       THEN DictItem(services, s.handle)
                       ELSE s)]_vars

\* A second service object with a stored handle was offered and skipped.
C3_Witness ==
    /\ call.op = "add_service"
    /\ logged
    /\ result = Return(None)
    /\ DictGet(services, call.arg.handle) # call.arg
    /\ get_service(IntSpec(call.arg.handle)).val \in Services

\* The stored services, and the stored characteristics, whose UUID is u
ServicesWithUuid(u) == {i \in DOMAIN services : uuid(services[i].val) = u}

CharacteristicsWithUuid(u) ==
    {i \in DOMAIN characteristics : uuid(characteristics[i].val) = u}

\* The outcome the number of matches decides: absent for none, the match for
\* one, the ambiguity error for several.
ByMatches(d, matches) ==
    IF matches = {}
    THEN Return(None)
    ELSE IF Cardinality(matches) = 1
         THEN Return(d[CHOOSE i \in matches : TRUE].val)
         ELSE Raise("BleakError")

\* C4: in every state and for every specifier, get_service with a UUID
\* specifier returns absent when no stored service has the normalized UUID,
\* that service when exactly one has it, and raises the ambiguity error when
\* several have it; with an integer handle it never raises.
C4_GetServiceOutcomes ==
    \A sp \in Specifiers :
      IF IsInt(sp)
      THEN get_service(sp).kind = "return"
      ELSE get_service(sp) =
             ByMatches(services, ServicesWithUuid(_specifier(sp)))

\* Two services share a UUID: the lookup by the short, upper-case spelling of
\* that UUID is rejected as ambiguous, the lookup by a UUID no service has
\* returns absent, and the lookup by handle returns each of the two.
C4_Witness ==
    /\ Cardinality(ServicesWithUuid(Uuid180a)) = 2
    /\ get_service(StrSpec(Short180A)) = Raise("BleakError")
    /\ get_service(StrSpec(Short1800)) = Return(None)
    /\ \A i \in DOMAIN services :
         get_service(IntSpec(services[i].key)) = Return(services[i].val)

\* C5: in every state and for every UUID specifier, the collection's
\* get_characteristic normalizes the specifier as get_service does (lower
\* case, a 4-character UUID expanded to 128 bits) and returns absent when no
\* stored characteristic has that UUID, the characteristic when exactly one
\* has it, and raises the ambiguity error when several have it.
C5_GetCharacteristicNormalizes ==
    \A sp \in Specifiers :
      ~IsInt(sp) =>
        get_characteristic(sp) =
          ByMatches(characteristics, CharacteristicsWithUuid(_specifier(sp)))

\* C6: in every state and for every integer x, collection[x] is the service
\* stored under x if there is one, otherwise the characteristic stored under
\* x if there is one, otherwise the descriptor stored under x, otherwise
\* absent.
C6_GetItemPriority ==
    \A sp \in Specifiers :
      IsInt(sp) =>
        LET x == sp.int
        IN  getitem(sp) =
              Return(IF \E i \in DOMAIN services : services[i].key = x
                     THEN DictItem(services, x)
                     ELSE IF \E i \in DOMAIN characteristics :
                               characteristics[i].key = x
                          THEN DictItem(characteristics, x)
                          ELSE IF \E i \in DOMAIN descriptors :
                                    descriptors[i].key = x
                               THEN DictItem(descriptors, x)
                               ELSE None)

\* A service and a characteristic are stored under handle 1 and
\* collection[1] is the service; only a characteristic is stored under
\* handle 2 and collection[2] is that characteristic.
C6_Witness ==
    /\ DictHas(services, 1)
    /\ DictHas(characteristics, 1)
    /\ getitem(IntSpec(1)) = Return(DictItem(services, 1))
    /\ ~DictHas(services, 2)
    /\ DictHas(characteristics, 2)
    /\ getitem(IntSpec(2)) = Return(DictItem(characteristics, 2))

\* C7: iteration yields the stored services, each once, in the order of
\* their first successful add_service, whatever their handles: a step that
\* adds a service under a new handle appends it to the iteration, and every
\* other step (a duplicate add_service, an add_characteristic, an
\* add_descriptor) leaves the iteration as it was.
C7_IterationIsInsertionOrder ==
    [][/\ IF \E s \in Services :
               Called("add_service", s) /\ ~DictHas(services, s.handle)
          THEN \E s \in Services :
                 Called("add_service", s) /\ iter' = Append(iter, s)
          ELSE iter' = iter
       /\ \A i, j \in DOMAIN iter' : iter'[i] = iter'[j] => i = j
       /\ Range(iter') \subseteq Services]_vars

\* Iteration yields the service with handle 2 before the service with
\* handle 1, after a duplicate add_service.
C7_Witness ==
    /\ Len(iter) = 2
    /\ iter[1].handle = 2
    /\ iter[2].handle = 1
    /\ call.op = "add_service"
    /\ logged

\* C8 as claimed: add_descriptor(d) raises whenever no characteristic with
\* handle d.characteristic_handle is stored; and when that characteristic is
\* stored and d.handle is new, d is put in the descriptor mapping and
\* appended to that characteristic's descriptors list.
C8_MissingParentAlwaysRaises ==
    [][\A d \in Descriptors :
         Called("add_descriptor", d) =>
           /\ ~DictHas(characteristics, d.characteristic_handle)
                => result' = Raise("KeyError")
           /\ (DictHas(characteristics, d.characteristic_handle)
                 /\ ~DictHas(descriptors, d.handle))
                => /\ result' = Return(None)
                   /\ descriptors' =
                        Append(descriptors, [key |-> d.handle, val |-> d])
                   /\ DescriptorsOf(d.characteristic_handle)' =
                        Append(DescriptorsOf(d.characteristic_handle), d)]_vars

\* C8 as amended: add_descriptor(d) with a handle new to the descriptor
\* mapping raises when no characteristic with handle d.characteristic_handle
\* is stored, and when that characteristic is stored d is put in the
\* descriptor mapping and appended to that characteristic's descriptors
\* list; add_descriptor(d) with a handle already in the descriptor mapping
\* raises nothing, whether or not the characteristic is stored.
C8_MissingParentRaisesForNewHandle ==
    [][\A d \in Descriptors :
         Called("add_descriptor", d) =>
           /\ (~DictHas(characteristics, d.characteristic_handle)
                 /\ ~DictHas(descriptors, d.handle))
                => result' = Raise("KeyError")
           /\ (DictHas(characteristics, d.characteristic_handle)
                 /\ ~DictHas(descriptors, d.handle))
                => /\ result' = Return(None)
                   /\ descriptors' =
                        Append(descriptors, [key |-> d.handle, val |-> d])
                   /\ DescriptorsOf(d.characteristic_handle)' =
                        Append(DescriptorsOf(d.characteristic_handle), d)
           /\ DictHas(descriptors, d.handle) => result' = Return(None)]_vars

\* add_descriptor raised for a descriptor whose characteristic is not stored.
C8_Witness ==
    /\ call.op = "add_descriptor"
    /\ result = Raise("KeyError")
    /\ ~DictHas(characteristics, call.arg.characteristic_handle)

\* C9: no stored child references an absent parent: the service_handle of
\* every stored characteristic is a key of the service mapping, and the
\* characteristic_handle of every stored descriptor is a key of the
\* characteristic mapping.
C9_NoOrphans ==
    /\ \A i \in DOMAIN characteristics :
         DictHas(services, characteristics[i].val.service_handle)
    /\ \A i \in DOMAIN descriptors :
         DictHas(characteristics, descriptors[i].val.characteristic_handle)

\* Every entry of d is an entry of e, under the same key.
Keeps(d, e) ==
    \A i \in DOMAIN d :
      \E j \in DOMAIN e : e[j].key = d[i].key /\ e[j].val = d[i].val

\* C10: no step removes or replaces an entry of one of the three mappings: a
\* handle that is a key stays a key, of the same entity.
C10_Monotonic ==
    [][/\ Keeps(services, services')
       /\ Keeps(characteristics, characteristics')
       /\ Keeps(descriptors, descriptors')]_vars

\* A second characteristic object was offered under a stored handle, and
\* the stored one is still there.
C10_Witness ==
    /\ call.op = "add_characteristic"
    /\ logged
    /\ DictHas(characteristics, call.arg.handle)
    /\ DictItem(characteristics, call.arg.handle) # call.arg

\* The first element of the list l whose UUID is u, or None
FirstWithUuid(l, u) ==
    LET m == {i \in DOMAIN l : uuid(l[i]) = u}
    IN  IF m = {} THEN None ELSE l[CHOOSE i \in m : \A j \in m : i <= j]

\* For every stored service and every UUID specifier, the service's
\* get_characteristic returns the earliest-added characteristic of its list
\* whose UUID is the normalized specifier, or absent, and never raises.
ServiceGetCharacteristicIsFirstMatch ==
    \A i \in DOMAIN services :
      \A sp \in Specifiers :
        ~IsInt(sp) =>
          service_get_characteristic(services[i].val, sp) =
            Return(FirstWithUuid(ListOf(svc_chars, services[i].val),
                                 _specifier(sp)))

\* C11: for every stored service and every UUID specifier, the service's
\* get_characteristic returns the earliest-added characteristic of its list
\* whose UUID is the normalized specifier, or absent when there is none, and
\* never raises; and when several characteristics of the service have that
\* UUID, the collection's get_characteristic with the same specifier raises
\* the ambiguity error.
C11_ServiceGetCharacteristic ==
    /\ ServiceGetCharacteristicIsFirstMatch
    /\ \A i \in DOMAIN services :
         \A sp \in Specifiers :
           (/\ ~IsInt(sp)
            /\ Cardinality({j \in DOMAIN ListOf(svc_chars, services[i].val) :
                              uuid(ListOf(svc_chars, services[i].val)[j]) =
                                _specifier(sp)}) > 1)
             => get_characteristic(sp) = Raise("BleakError")

\* C12: in every state, get_descriptor with a UUID specifier (a string in
\* any spelling, or a UUID object) returns absent, whatever the UUIDs of the
\* stored descriptors; with an integer handle it returns the descriptor
\* stored under that handle, or absent when there is none; it never raises.
C12_GetDescriptorByHandleOnly ==
    \A sp \in Specifiers :
      get_descriptor(sp) =
        Return(IF IsInt(sp) /\ \E i \in DOMAIN descriptors :
                                 descriptors[i].key = sp.int
               THEN descriptors[CHOOSE i \in DOMAIN descriptors :
                                  descriptors[i].key = sp.int].val
               ELSE None)

\* A descriptor with UUID 00001800-0000-1000-8000-00805f9b34fb is stored,
\* under a stored characteristic: the lookup by its handle returns it, and
\* the lookups by its UUID, spelled in full or in 16-bit form, return absent.
C12_Witness ==
    \E i \in DOMAIN descriptors :
      /\ uuid(descriptors[i].val) = Uuid1800
      /\ DictHas(characteristics, descriptors[i].val.characteristic_handle)
      /\ get_descriptor(IntSpec(descriptors[i].key)) =
           Return(descriptors[i].val)
      /\ get_descriptor(StrSpec(Uuid1800)) = Return(None)
      /\ get_descriptor(StrSpec(Short1800)) = Return(None)

\* C13: normalization is idempotent, for the normalization of get_service
\* and for that of BleakGATTService.get_characteristic: whenever a text that
\* is itself the result of a normalization is normalized, the result is that
\* text unchanged.
C13_NormalizeIdempotent ==
    /\ call.op = "_specifier" =>
         /\ _specifier(result.val) = result.val.text
         /\ ncalls > 1 => result.val = call.arg
    /\ call.op = "_uuid" =>
         /\ _uuid(result.val) = result.val.text
         /\ ncalls > 1 => result.val = call.arg

\* A 4-character text with an upper-case letter was normalized to the
\* lower-case 128-bit form, and normalizing that form returned it unchanged.
C13_Witness ==
    /\ call.op = "_specifier"
    /\ ncalls = 2
    /\ call.arg = StrSpec(BaseUuid(<<"1", "a", "f", "a">>))
    /\ result = Return(call.arg)

\* C14: whatever calls are made, no characteristics list holds a
\* characteristic twice, and every list is in the order of the successful
\* add_characteristic calls: a call add_characteristic(c) that is neither
\* rejected for a missing service nor skipped as a duplicate appends c to the
\* list of the service stored under c.service_handle, and every other step,
\* a repeated add_characteristic for a stored handle included, leaves every
\* list as it was.
C14_CharacteristicsListOnceInOrder ==
    [][\A s \in Services :
         /\ ListOf(svc_chars, s)' =
              IF /\ call'.op = "add_characteristic"
                 /\ ncalls' = ncalls + 1
                 /\ result' = Return(None)
                 /\ ~logged'
                 /\ DictGet(services, call'.arg.service_handle) = s
              THEN Append(ListOf(svc_chars, s), call'.arg)
              ELSE ListOf(svc_chars, s)
         /\ \A i, j \in DOMAIN ListOf(svc_chars, s)' :
              ListOf(svc_chars, s)'[i] = ListOf(svc_chars, s)'[j] => i = j
         /\ \A i \in DOMAIN ListOf(svc_chars, s)' :
              ListOf(svc_chars, s)'[i].service_handle = s.handle]_vars

\* add_characteristic was repeated for a characteristic that is in its
\* service's list, was skipped, and the characteristic is in the list once.
C14_Witness ==
    /\ call.op = "add_characteristic"
    /\ logged
    /\ DictHas(services, call.arg.service_handle)
    /\ Count(CharacteristicsOf(call.arg.service_handle), call.arg) = 1

\* C15: a call of add_characteristic or add_descriptor that raises for a
\* missing parent leaves the three mappings and every child list as they
\* were, and after it the lookup of the rejected object's handle, by
\* get_characteristic or get_descriptor, returns absent.
C15_FailedAddChangesNothing ==
    [][(/\ call'.op \in {"add_characteristic", "add_descriptor"}
        /\ ncalls' = ncalls + 1
        /\ result' = Raise("KeyError"))
         => /\ UNCHANGED <<services, characteristics, descriptors, svc_chars,
                           chr_descs>>
            /\ \A h \in Handles :
                 call'.arg.handle = h =>
                   /\ call'.op = "add_characteristic" =>
                        get_characteristic(IntSpec(h))' = Return(None)
                   /\ call'.op = "add_descriptor" =>
                        get_descriptor(IntSpec(h))' = Return(None)]_vars

\* C16: add_characteristic(c) with a handle that is already a key of the
\* characteristic mapping raises nothing, is reported as a duplicate, and
\* changes none of the three mappings and no characteristics list, whether
\* c.service_handle names the service of the stored characteristic, another
\* service, or no stored service at all.
C16_DuplicateBeforeParent ==
    [][\A c \in Characteristics :
         (Called("add_characteristic", c) /\ DictHas(characteristics, c.handle))
           => /\ result' = Return(None)
              /\ logged'
              /\ UNCHANGED <<services, characteristics, descriptors,
                             svc_chars>>]_vars

\* A characteristic is stored and listed under its service, and a second
\* object with its handle, naming a service that is not in the collection,
\* was offered: nothing was raised and the first one is still stored.
C16_Witness ==
    /\ call.op = "add_characteristic"
    /\ result = Return(None)
    /\ logged
    /\ ~DictHas(services, call.arg.service_handle)
    /\ DictHas(characteristics, call.arg.handle)
    /\ LET stored == DictItem(characteristics, call.arg.handle)
       IN  /\ stored.service_handle # call.arg.service_handle
           /\ DictHas(services, stored.service_handle)
           /\ CharacteristicsOf(stored.service_handle) = <<stored>>

\* C17: in every state and for every UUID specifier u, collection[u] raises
\* the ambiguity error exactly when more than one stored service has the
\* normalized UUID, or no stored service has it and more than one stored
\* characteristic has it; so an ambiguous service raises whatever the
\* characteristics are, and a single matching service is returned even when
\* several characteristics have the UUID.
C17_GetItemAmbiguity ==
    \A sp \in Specifiers :
      ~IsInt(sp) =>
        LET u == _specifier(sp)
            s == Cardinality(ServicesWithUuid(u))
            c == Cardinality(CharacteristicsWithUuid(u))
        IN  /\ getitem(sp) = Raise("BleakError")
                 <=> (s > 1 \/ (s = 0 /\ c > 1))
            /\ s = 1 =>
                 getitem(sp) =
                   Return(services[CHOOSE i \in ServicesWithUuid(u) : TRUE].val)

====
